---- MODULE Spec2Model ----
(***************************************************************************)
(* A model of the minimalist-grammar derivation engine of                  *)
(* atomic-lang-model/src/lib.rs: features, lexical items, syntactic        *)
(* objects, the workspace, merge, move, step, derive and parse_sentence.   *)
(*                                                                         *)
(* Conventions.                                                            *)
(*  - A Rust String is a sequence of symbols; " " is the whitespace        *)
(*    symbol and every other symbol is a chunk of non-whitespace           *)
(*    characters.  The chunks are chosen so that two different sequences   *)
(*    never spell the same text.                                           *)
(*  - Option<T> is a sequence of length 0 (None) or 1 (Some).              *)
(*  - Vec indices are 1-based here and 0-based in the source; the order    *)
(*    of elements is the same.                                             *)
(*  - A Result is a record [tag, err, obj, tok].                           *)
(***************************************************************************)
EXTENDS Integers, Sequences, FiniteSets, TLC

VARIABLES
    items,          \* Workspace.items
    memory_limit,   \* Workspace.memory_limit
    step_count,     \* Workspace.step_count
    args,           \* the arguments of the call of a free function
    call,           \* the last call made: [op, max_steps, trace]
    pre,            \* the workspace as it was when the last call was made
    ret             \* what the last call returned

vars == <<items, memory_limit, step_count, args, call, pre, ret>>

(***************************************************************************)
(* Feature (lib.rs 72-105)                                                 *)
(***************************************************************************)
Cat(c) == [t |-> "Cat", c |-> c, k |-> 0]
Sel(c) == [t |-> "Sel", c |-> c, k |-> 0]
Pos(k) == [t |-> "Pos", c |-> "", k |-> k]
Neg(k) == [t |-> "Neg", c |-> "", k |-> k]
Ctx(s) == [t |-> "Ctx", c |-> s, k |-> 0]

IsCat(f) == f.t = "Cat"
IsSel(f) == f.t = "Sel"
is_positive(f) == f.t = "Pos"
is_negative(f) == f.t = "Neg"
movement_index(f) == IF f.t \in {"Pos", "Neg"} THEN <<f.k>> ELSE <<>>

(***************************************************************************)
(* Iterator helpers: Iterator::find gives the first element that           *)
(* satisfies the test (here its index, 0 for None); Vec::retain keeps the  *)
(* elements that satisfy the test, in order; Vec::remove takes one out.    *)
(***************************************************************************)
FirstOfKind(s, kind) ==
    IF \E i \in 1..Len(s) : s[i].t = kind
    THEN CHOOSE i \in 1..Len(s) : s[i].t = kind /\ \A j \in 1..(i - 1) : s[j].t # kind
    ELSE 0

RetainNotKind(s, kind) == SelectSeq(s, LAMBDA f : f.t # kind)

RetainNot(s, g) == SelectSeq(s, LAMBDA f : f # g)

RemoveAt(s, i) == SubSeq(s, 1, i - 1) \o SubSeq(s, i + 1, Len(s))

(***************************************************************************)
(* Results and errors (lib.rs 200-215)                                     *)
(***************************************************************************)
OkUnit == [tag |-> "Ok", err |-> "", obj |-> <<>>, tok |-> <<>>]
OkObj(o) == [tag |-> "Ok", err |-> "", obj |-> <<o>>, tok |-> <<>>]
Err(e) == [tag |-> "Err", err |-> e, obj |-> <<>>, tok |-> <<>>]
UnknownToken(token) == [tag |-> "Err", err |-> "UnknownToken", obj |-> <<>>, tok |-> token]
\* What a function that cannot fail returned (a bool, a list, a text).
Returned(v) == [tag |-> "Val", err |-> "", obj |-> <<v>>, tok |-> <<>>]
NoRet == [tag |-> "None", err |-> "", obj |-> <<>>, tok |-> <<>>]

(***************************************************************************)
(* LexItem and SyntacticObject (lib.rs 107-183)                            *)
(***************************************************************************)
LexItem(phon, feats) == [phon |-> phon, feats |-> feats]

from_lex(item) ==
    LET ci == FirstOfKind(item.feats, "Cat")
    IN  [label    |-> IF ci = 0 THEN "N" ELSE item.feats[ci].c,
         features |-> item.feats,
         children |-> <<>>,
         phon     |-> <<item.phon>>]

\* A variant of internal that carries the first child's phon up to the new node.
InternalKeepsPhon(label, features, children) ==
    [label |-> label, features |-> features, children |-> children,
     phon |-> IF children = <<>> THEN <<>> ELSE children[1].phon]

internal(label, features, children) ==
    [label |-> label, features |-> features, children |-> children, phon |-> <<>>]

is_complete(obj) == obj.features = <<>>

RECURSIVE JoinSpace(_)
JoinSpace(parts) ==
    IF parts = <<>> THEN <<>>
    ELSE IF Len(parts) = 1 THEN parts[1]
    ELSE parts[1] \o <<" ">> \o JoinSpace(Tail(parts))

RECURSIVE linearize(_)
linearize(obj) ==
    IF obj.phon # <<>> THEN obj.phon[1]
    ELSE JoinSpace([i \in 1..Len(obj.children) |-> linearize(obj.children[i])])

(***************************************************************************)
(* Workspace (lib.rs 189-262)                                              *)
(***************************************************************************)
Workspace(its, limit, count) ==
    [items |-> its, memory_limit |-> limit, step_count |-> count]

new(limit) == Workspace(<<>>, limit, 0)

add_lex(ws, item) == [ws EXCEPT !.items = Append(@, from_lex(item))]

is_successful(ws) == Len(ws.items) = 1 /\ is_complete(ws.items[1])

RECURSIVE object_size(_)
RECURSIVE SumSizes(_)
SumSizes(objs) ==
    IF objs = <<>> THEN 0 ELSE object_size(Head(objs)) + SumSizes(Tail(objs))

object_size(obj) == 1 + SumSizes(obj.children)

memory_usage(ws) == SumSizes(ws.items)

(***************************************************************************)
(* Merge (lib.rs 268-327)                                                  *)
(***************************************************************************)
\* Variants of MergeMatches with a plausible slip each, for checking that the
\* statements about merge depend on it: any selector of a may match; a
\* missing selector counts as a match.
MergeMatchesAnySel(a, b) ==
    LET ci == FirstOfKind(b.features, "Cat")
    IN  /\ ci # 0
        /\ \E i \in 1..Len(a.features) :
              IsSel(a.features[i]) /\ a.features[i].c = b.features[ci].c

MergeMatchesNoSelOk(a, b) ==
    LET si == FirstOfKind(a.features, "Sel")
        ci == FirstOfKind(b.features, "Cat")
    IN  /\ ci # 0
        /\ (si = 0 \/ a.features[si].c = b.features[ci].c)

\* A variant of MergeMatches that does not compare the two categories.
MergeMatchesAnyCategory(a, b) ==
    /\ FirstOfKind(a.features, "Sel") # 0
    /\ FirstOfKind(b.features, "Cat") # 0

MergeMatches(a, b) ==
    LET si == FirstOfKind(a.features, "Sel")
        ci == FirstOfKind(b.features, "Cat")
    IN  /\ si # 0
        /\ ci # 0
        /\ a.features[si].c = b.features[ci].c

\* A variant of MergedFeatures that checks the category on both operands.
MergedFeaturesNoCat(a, b) ==
    RetainNotKind(RetainNotKind(a.features, "Sel"), "Cat") \o RetainNotKind(b.features, "Cat")

MergedFeatures(a, b) ==
    RetainNotKind(a.features, "Sel") \o RetainNotKind(b.features, "Cat")

merge(a, b) ==
    IF MergeMatches(a, b)
    THEN OkObj(internal(a.label, MergedFeatures(a, b), <<a, b>>))
    ELSE Err("FeatureMismatch")

\* A variant of can_merge that applies merge's own test (first selector
\* against first category).
CanMergeFirstOnly(a, b) == MergeMatches(a, b)

can_merge(a, b) ==
    \E i \in 1..Len(a.features) :
        /\ IsSel(a.features[i])
        /\ \E j \in 1..Len(b.features) :
              IsCat(b.features[j]) /\ b.features[j].c = a.features[i].c

find_mergeable_pairs(its) ==
    LET n == Len(its)
        all == [p \in 1..(n * n) |-> <<((p - 1) \div n) + 1, ((p - 1) % n) + 1>>]
    IN  SelectSeq(all, LAMBDA q : q[1] # q[2] /\ can_merge(its[q[1]], its[q[2]]))

(***************************************************************************)
(* Move (lib.rs 333-390)                                                   *)
(***************************************************************************)
HasNeg(obj, movement_idx) ==
    \E i \in 1..Len(obj.features) : obj.features[i] = Neg(movement_idx)

RECURSIVE find_movement_target(_, _)
RECURSIVE FindInChildren(_, _)
\* A variant of FindInChildren that returns from the loop with the first
\* child's answer.
FindInChildrenFirstOnly(children, movement_idx) ==
    IF children = <<>> THEN <<>>
    ELSE find_movement_target(Head(children), movement_idx)

FindInChildren(children, movement_idx) ==
    IF children = <<>> THEN <<>>
    ELSE LET target == find_movement_target(Head(children), movement_idx)
         IN  IF target # <<>> THEN target
             ELSE FindInChildren(Tail(children), movement_idx)

\* A variant of find_movement_target that searches the children before the
\* object itself.
FindTargetChildrenFirst(obj, movement_idx) ==
    LET below == FindInChildren(obj.children, movement_idx)
    IN  IF below # <<>> THEN below
        ELSE IF HasNeg(obj, movement_idx) THEN <<obj>>
        ELSE <<>>

find_movement_target(obj, movement_idx) ==
    IF HasNeg(obj, movement_idx) THEN <<obj>>
    ELSE FindInChildren(obj.children, movement_idx)

\* A variant of extract_and_move that leaves the licensor on the root.
ExtractKeepsLicensor(obj, target, movement_idx) ==
    LET target_features == RetainNot(target.features, Neg(movement_idx))
        moved_target == [target EXCEPT !.features = target_features]
    IN  OkObj(internal(obj.label, obj.features, <<moved_target, obj>>))

extract_and_move(obj, target, movement_idx) ==
    LET new_features == RetainNot(obj.features, Pos(movement_idx))
        target_features == RetainNot(target.features, Neg(movement_idx))
        moved_target == [target EXCEPT !.features = target_features]
    IN  OkObj(internal(obj.label, new_features, <<moved_target, obj>>))

move_operation(obj) ==
    LET pi == FirstOfKind(obj.features, "Pos")
    IN  IF pi = 0 THEN Err("NoValidOperations")
        ELSE LET idx == movement_index(obj.features[pi])
             IN  IF idx = <<>> THEN Err("NoValidOperations")
                 ELSE LET target == find_movement_target(obj, idx[1])
                      IN  IF target = <<>> THEN Err("NoValidOperations")
                          ELSE extract_and_move(obj, target[1], idx[1])

(***************************************************************************)
(* Derivation engine (lib.rs 396-455)                                      *)
(***************************************************************************)
Outcome(ws, r) == [ws |-> ws, ret |-> r]

Max(x, y) == IF x >= y THEN x ELSE y
Min(x, y) == IF x <= y THEN x ELSE y

\* A variant of StepMerge that merges the pair in the order it was found:
\* items[i], the selector, is the left operand.
StepMergeSelectorLeft(ws, i, j) ==
    LET a == ws.items[i]
        b == ws.items[j]
        after_b == RemoveAt(RemoveAt(ws.items, Max(i, j)), Min(i, j))
        merged == merge(a, b)
    IN  IF merged.tag = "Ok"
        THEN Outcome([ws EXCEPT !.items = Append(after_b, merged.obj[1])], OkUnit)
        ELSE Outcome([ws EXCEPT !.items = after_b], merged)

\* lib.rs 411-421: the first pair, the two removals, the merge.
StepMerge(ws, i, j) ==
    LET a == ws.items[Max(i, j)]
        after_a == RemoveAt(ws.items, Max(i, j))
        b == after_a[Min(i, j)]
        after_b == RemoveAt(after_a, Min(i, j))
        merged == merge(a, b)
    IN  IF merged.tag = "Ok"
        THEN Outcome([ws EXCEPT !.items = Append(after_b, merged.obj[1])], OkUnit)
        ELSE Outcome([ws EXCEPT !.items = after_b], merged)

\* A variant of StepMove that replaces the last item that moves.
StepMoveLast(ws) ==
    LET movable == {i \in 1..Len(ws.items) : move_operation(ws.items[i]).tag = "Ok"}
    IN  IF movable = {} THEN Outcome(ws, Err("NoValidOperations"))
        ELSE LET i == CHOOSE m \in movable : \A n \in movable : m >= n
             IN  Outcome([ws EXCEPT !.items[i] = move_operation(ws.items[i]).obj[1]], OkUnit)

\* lib.rs 425-432: the first item that moves is replaced in place.
StepMove(ws) ==
    LET movable == {i \in 1..Len(ws.items) : move_operation(ws.items[i]).tag = "Ok"}
    IN  IF movable = {} THEN Outcome(ws, Err("NoValidOperations"))
        ELSE LET i == CHOOSE m \in movable : \A n \in movable : m <= n
             IN  Outcome([ws EXCEPT !.items[i] = move_operation(ws.items[i]).obj[1]], OkUnit)

\* A variant of MemoryExceeded that counts the items and not their nodes.
MemoryExceededRoots(ws) == Len(ws.items) > ws.memory_limit

MemoryExceeded(ws) == memory_usage(ws) > ws.memory_limit

\* A variant of step that counts the step after the memory check.
StepCountsAfterGuard(ws) ==
    IF ws.items = <<>> THEN Outcome(ws, Err("EmptyWorkspace"))
    ELSE IF MemoryExceeded(ws)
         THEN Outcome(ws, Err("MemoryLimitExceeded"))
         ELSE LET counted == [ws EXCEPT !.step_count = @ + 1]
                  mergeable_pairs == find_mergeable_pairs(counted.items)
              IN  IF mergeable_pairs # <<>>
                  THEN StepMerge(counted, mergeable_pairs[1][1], mergeable_pairs[1][2])
                  ELSE StepMove(counted)

step(ws) ==
    IF ws.items = <<>> THEN Outcome(ws, Err("EmptyWorkspace"))
    ELSE LET counted == [ws EXCEPT !.step_count = @ + 1]
         IN  IF MemoryExceeded(counted)
             THEN Outcome(counted, Err("MemoryLimitExceeded"))
             ELSE LET mergeable_pairs == find_mergeable_pairs(counted.items)
                  IN  IF mergeable_pairs # <<>>
                      THEN StepMerge(counted, mergeable_pairs[1][1], mergeable_pairs[1][2])
                      ELSE StepMove(counted)

\* A run of derive: the workspace it leaves, what it returns, and the results
\* of the step calls it made, in order.
Run(ws, r, trace) == [ws |-> ws, ret |-> r, trace |-> trace]

\* lib.rs 450-454
DeriveFinish(ws, trace) ==
    IF is_successful(ws)
    THEN Run(ws, OkObj(ws.items[1]), trace)
    ELSE Run(ws, Err("NoValidOperations"), trace)

\* A variant of LoopCount for the inclusive range 0..=max_steps.
LoopCountInclusive(max_steps) == max_steps + 1

\* lib.rs 437: for _ in 0..max_steps
LoopCount(max_steps) == max_steps

\* A variant of IsStuck that ends the loop on every step error.
IsStuckAny(e) == TRUE

\* lib.rs 443: the step error that ends the loop without being returned
IsStuck(e) == e = "NoValidOperations"

RECURSIVE DeriveLoop(_, _, _)
DeriveLoop(ws, remaining, trace) ==
    IF remaining = 0 THEN DeriveFinish(ws, trace)
    ELSE IF is_successful(ws) THEN Run(ws, OkObj(ws.items[1]), trace)
    ELSE LET s == step(ws)
         IN  IF s.ret.tag = "Err"
             THEN IF IsStuck(s.ret.err)
                  THEN DeriveFinish(s.ws, Append(trace, s.ret))
                  ELSE Run(s.ws, s.ret, Append(trace, s.ret))
             ELSE DeriveLoop(s.ws, remaining - 1, Append(trace, s.ret))

derive(ws, max_steps) == DeriveLoop(ws, LoopCount(max_steps), <<>>)

(***************************************************************************)
(* Lexicon and parse_sentence (lib.rs 461-477, 523-538)                    *)
(***************************************************************************)
test_lexicon ==
    << LexItem(<<"the">>, <<Cat("D"), Sel("N")>>),
       LexItem(<<"a">>, <<Cat("D"), Sel("N")>>),
       LexItem(<<"student">>, <<Cat("N")>>),
       LexItem(<<"tutor">>, <<Cat("N")>>),
       LexItem(<<"teacher">>, <<Cat("N")>>),
       LexItem(<<"who">>, <<Cat("C"), Sel("S")>>),
       LexItem(<<"that">>, <<Cat("C"), Sel("S")>>),
       LexItem(<<"said">>, <<Cat("V"), Sel("DP"), Pos(1)>>),
       LexItem(<<"thinks">>, <<Cat("V"), Sel("DP")>>),
       LexItem(<<"left">>, <<Cat("V")>>),
       LexItem(<<"smiled">>, <<Cat("V")>>),
       LexItem(<<"arrived">>, <<Cat("V")>>) >>

ParseMemoryLimit == 4096
ParseMaxSteps == 100

IsWhitespace(ch) == ch = " "

\* str::split_whitespace: the maximal runs of non-whitespace symbols, in order.
RECURSIVE SplitFrom(_, _, _)
SplitFrom(s, cur, acc) ==
    IF s = <<>> THEN (IF cur = <<>> THEN acc ELSE Append(acc, cur))
    ELSE IF IsWhitespace(Head(s))
         THEN SplitFrom(Tail(s), <<>>, IF cur = <<>> THEN acc ELSE Append(acc, cur))
         ELSE SplitFrom(Tail(s), Append(cur, Head(s)), acc)

split_whitespace(s) == SplitFrom(s, <<>>, <<>>)

\* A variant of FindLex that takes the last item with the surface form.
FindLexLast(lexicon, token) ==
    IF \E i \in 1..Len(lexicon) : lexicon[i].phon = token
    THEN CHOOSE i \in 1..Len(lexicon) :
            lexicon[i].phon = token /\ \A j \in (i + 1)..Len(lexicon) : lexicon[j].phon # token
    ELSE 0

\* lib.rs 530: lexicon.iter().find(|item| item.phon == token), 0 for None
FindLex(lexicon, token) ==
    IF \E i \in 1..Len(lexicon) : lexicon[i].phon = token
    THEN CHOOSE i \in 1..Len(lexicon) :
            lexicon[i].phon = token /\ \A j \in 1..(i - 1) : lexicon[j].phon # token
    ELSE 0

\* lib.rs 529-535
RECURSIVE AddTokens(_, _, _)
AddTokens(ws, tokens, lexicon) ==
    IF tokens = <<>> THEN Outcome(ws, OkUnit)
    ELSE LET li == FindLex(lexicon, Head(tokens))
         IN  IF li = 0 THEN Outcome(ws, UnknownToken(Head(tokens)))
             ELSE AddTokens(add_lex(ws, lexicon[li]), Tail(tokens), lexicon)

parse_sentence(sentence, lexicon) ==
    LET tokens == split_whitespace(sentence)
        seeded == AddTokens(new(ParseMemoryLimit), tokens, lexicon)
    IN  IF seeded.ret.tag = "Err" THEN Run(seeded.ws, seeded.ret, <<>>)
        ELSE derive(seeded.ws, ParseMaxSteps)

\* lib.rs 485-486: std::iter::repeat(tok).take(n).collect().join(" ")
RepeatJoin(tok, n) == JoinSpace([i \in 1..n |-> <<tok>>])

\* A variant of generate_an_bn that puts no space between the two halves.
GenerateAnBnAdjacent(n) ==
    IF n = 0 THEN <<>> ELSE RepeatJoin("a", n) \o RepeatJoin("b", n)

\* lib.rs 480-488
generate_an_bn(n) ==
    IF n = 0 THEN <<>>
    ELSE RepeatJoin("a", n) \o <<" ">> \o RepeatJoin("b", n)

\* A variant of is_an_bn_pattern without the length check of lib.rs 498-500.
IsAnBnNoLengthCheck(s) ==
    LET tokens == split_whitespace(s)
        n == Len(tokens) \div 2
    IN  IF tokens = <<>> THEN TRUE
        ELSE IF \E i \in 0..(n - 1) : tokens[i + 1] # <<"a">> THEN FALSE
        ELSE IF \E i \in n..(2 * n - 1) : tokens[i + 1] # <<"b">> THEN FALSE
        ELSE TRUE

\* lib.rs 491-517; tokens[i] of the code is tokens[i + 1] here.
is_an_bn_pattern(s) ==
    LET tokens == split_whitespace(s)
        n == Len(tokens) \div 2
    IN  IF tokens = <<>> THEN TRUE
        ELSE IF Len(tokens) # 2 * n THEN FALSE
        ELSE IF \E i \in 0..(n - 1) : tokens[i + 1] # <<"a">> THEN FALSE
        ELSE IF \E i \in n..(2 * n - 1) : tokens[i + 1] # <<"b">> THEN FALSE
        ELSE TRUE

\* lib.rs 541-546; a pattern name is a string like any other.
generate_pattern(pattern, n) ==
    IF pattern = <<"an_bn">> THEN Returned(generate_an_bn(n))
    ELSE Err("InvalidOperation")

\* lib.rs 549-551
can_generate(pattern, n) == generate_pattern(pattern, n).tag # "Err"

(***************************************************************************)
(* The workspace as a state machine: a caller creates a workspace, adds    *)
(* lexical items and calls step and derive on it.                          *)
(***************************************************************************)
MaxItems == 3
MaxStepCount == 4
MaxDerive == 2

\* The memory limits a caller passes to Workspace::new.
MemLimits == {1, 3, ParseMemoryLimit}

\* The lexical items a caller adds: two of test_lexicon, a bare selector, an
\* item without features, an item that carries both movement features.
WorkLexicon ==
    { test_lexicon[1],
      test_lexicon[3],
      LexItem(<<"of">>, <<Sel("N")>>),
      LexItem(<<"eps">>, <<>>),
      LexItem(<<"wh">>, <<Pos(1), Neg(1)>>) }

WS == Workspace(items, memory_limit, step_count)

Called(op, max_steps, trace) == [op |-> op, max_steps |-> max_steps, trace |-> trace]

Init ==
    /\ items = <<>>
    /\ memory_limit \in MemLimits
    /\ step_count = 0
    /\ args = <<>>
    /\ call = Called("new", 0, <<>>)
    /\ pre = new(memory_limit)
    /\ ret = NoRet

AddLex ==
    \E item \in WorkLexicon :
        /\ Len(items) < MaxItems
        /\ items' = add_lex(WS, item).items
        /\ call' = Called("add_lex", 0, <<>>)
        /\ pre' = WS
        /\ ret' = NoRet
        /\ UNCHANGED <<memory_limit, step_count, args>>

Step ==
    /\ step_count < MaxStepCount
    /\ LET o == step(WS)
       IN  /\ items' = o.ws.items
           /\ step_count' = o.ws.step_count
           /\ ret' = o.ret
    /\ call' = Called("step", 0, <<>>)
    /\ pre' = WS
    /\ UNCHANGED <<memory_limit, args>>

Derive ==
    \E max_steps \in 0..MaxDerive :
        /\ step_count + max_steps <= MaxStepCount
        /\ LET r == derive(WS, max_steps)
           IN  /\ items' = r.ws.items
               /\ step_count' = r.ws.step_count
               /\ ret' = r.ret
               /\ call' = Called("derive", max_steps, r.trace)
        /\ pre' = WS
        /\ UNCHANGED <<memory_limit, args>>

Next == AddLex \/ Step \/ Derive

Spec == Init /\ [][Next]_vars

(***************************************************************************)
(* The free functions on inputs drawn from bounded sets: merge,            *)
(* move_operation and parse_sentence are called once on their arguments.   *)
(***************************************************************************)
SeqsUpTo(S, n) == UNION {[1..m -> S] : m \in 0..n}

Idle ==
    /\ items = <<>>
    /\ memory_limit = ParseMemoryLimit
    /\ step_count = 0
    /\ call = Called("new", 0, <<>>)
    /\ pre = new(ParseMemoryLimit)
    /\ ret = NoRet

\* merge(a, b): objects built field by field, as test_merge_operation does.
MaxMergeFeats == 2

MergeFeats == {Cat("N"), Cat("D"), Sel("N"), Sel("D"), Pos(1)}

MergeLeft ==
    {[label |-> l, features |-> fs, children |-> <<>>, phon |-> << <<"x">> >>] :
        l \in {"D", "V"}, fs \in SeqsUpTo(MergeFeats, MaxMergeFeats)}

MergeRight ==
    {[label |-> "N", features |-> fs, children |-> <<>>, phon |-> << <<"y">> >>] :
        fs \in SeqsUpTo(MergeFeats, MaxMergeFeats)}

InitMerge ==
    /\ Idle
    /\ args \in {<<a, b>> : a \in MergeLeft, b \in MergeRight}

CallMerge ==
    /\ call.op = "new"
    /\ ret' = merge(args[1], args[2])
    /\ call' = Called("merge", 0, <<>>)
    /\ UNCHANGED <<items, memory_limit, step_count, args, pre>>

SpecMerge == InitMerge /\ [][CallMerge]_vars

\* move_operation(obj): a root over no children or over two subtrees, each a
\* leaf or a node over two leaves.
MaxMoveFeats == 2

MoveFeats == {Pos(1), Pos(2), Neg(1), Neg(2), Cat("N")}

KidFeats == {<<>>, <<Neg(1)>>, <<Neg(2), Neg(2)>>}

MoveLeaves ==
    {[label |-> "N", features |-> fs, children |-> <<>>, phon |-> << <<"w">> >>] :
        fs \in KidFeats}

MoveSubtrees ==
    MoveLeaves \cup
    {internal("D", fs, <<l, r>>) : fs \in KidFeats, l \in MoveLeaves, r \in MoveLeaves}

MoveObjs ==
    {[label |-> "V", features |-> fs, children |-> <<>>, phon |-> << <<"v">> >>] :
        fs \in SeqsUpTo(MoveFeats, MaxMoveFeats)}
    \cup
    {internal("V", fs, <<l, r>>) :
        fs \in SeqsUpTo(MoveFeats, MaxMoveFeats), l \in MoveSubtrees, r \in MoveSubtrees}

InitMove ==
    /\ Idle
    /\ args \in {<<obj>> : obj \in MoveObjs}

CallMove ==
    /\ call.op = "new"
    /\ ret' = move_operation(args[1])
    /\ call' = Called("move_operation", 0, <<>>)
    /\ UNCHANGED <<items, memory_limit, step_count, args, pre>>

SpecMove == InitMove /\ [][CallMove]_vars

\* parse_sentence(sentence, test_lexicon()); the workspace variables show the
\* function's own workspace as it is when the function returns.
MaxSentenceLen == 5

ParseAlphabet == {"the", "student", "left", " "}

InitParse ==
    /\ Idle
    /\ args \in {<<sentence>> : sentence \in SeqsUpTo(ParseAlphabet, MaxSentenceLen)}

CallParse ==
    /\ call.op = "new"
    /\ LET r == parse_sentence(args[1], test_lexicon)
       IN  /\ items' = r.ws.items
           /\ memory_limit' = r.ws.memory_limit
           /\ step_count' = r.ws.step_count
           /\ ret' = r.ret
           /\ call' = Called("parse_sentence", ParseMaxSteps, r.trace)
    /\ pre' = new(ParseMemoryLimit)
    /\ UNCHANGED args

SpecParse == InitParse /\ [][CallParse]_vars

\* can_merge(a, b) on the operands of merge, and find_mergeable_pairs on a
\* workspace whose items are given.
MaxPairItems == 3

PairFeatSeqs ==
    { <<>>, <<Sel("N")>>, <<Cat("N")>>, <<Sel("D"), Sel("N")>>,
      <<Cat("D"), Cat("N")>>, <<Cat("N"), Sel("N")>> }

PairObjs ==
    {[label |-> "N", features |-> fs, children |-> <<>>, phon |-> << <<"z">> >>] :
        fs \in PairFeatSeqs}

InitPairs ==
    /\ memory_limit = ParseMemoryLimit
    /\ step_count = 0
    /\ call = Called("new", 0, <<>>)
    /\ ret = NoRet
    /\ \/ /\ args \in {<<a, b>> : a \in MergeLeft, b \in MergeRight}
          /\ items = <<>>
       \/ /\ args = <<>>
          /\ items \in SeqsUpTo(PairObjs, MaxPairItems)
    /\ pre = WS

CallCanMerge ==
    /\ call.op = "new"
    /\ args # <<>>
    /\ ret' = Returned(can_merge(args[1], args[2]))
    /\ call' = Called("can_merge", 0, <<>>)
    /\ UNCHANGED <<items, memory_limit, step_count, args, pre>>

CallFindPairs ==
    /\ call.op = "new"
    /\ args = <<>>
    /\ ret' = Returned(find_mergeable_pairs(WS.items))
    /\ call' = Called("find_mergeable_pairs", 0, <<>>)
    /\ pre' = WS
    /\ UNCHANGED <<items, memory_limit, step_count, args>>

NextPairs == CallCanMerge \/ CallFindPairs

SpecPairs == InitPairs /\ [][NextPairs]_vars

\* parse_sentence(sentence, lexicon) over lexicons of the caller: one with
\* surface forms that occur twice, one without "student".
MaxLexSentenceLen == 3

LexAlphabet == {"the", "student", " "}

DupLexicon ==
    << LexItem(<<"the">>, <<Cat("D"), Sel("N")>>),
       LexItem(<<"student">>, <<Cat("N")>>),
       LexItem(<<"the">>, <<Cat("N")>>),
       LexItem(<<"student">>, <<Sel("D")>>) >>

ShortLexicon ==
    << LexItem(<<"the">>, <<Sel("N")>>),
       LexItem(<<"the">>, <<Cat("D"), Sel("N")>>) >>

Lexicons == {test_lexicon, DupLexicon, ShortLexicon}

InitParseLex ==
    /\ Idle
    /\ args \in {<<sentence, lexicon>> :
                    sentence \in SeqsUpTo(LexAlphabet, MaxLexSentenceLen),
                    lexicon \in Lexicons}

CallParseLex ==
    /\ call.op = "new"
    /\ LET r == parse_sentence(args[1], args[2])
       IN  /\ items' = r.ws.items
           /\ memory_limit' = r.ws.memory_limit
           /\ step_count' = r.ws.step_count
           /\ ret' = r.ret
           /\ call' = Called("parse_sentence", ParseMaxSteps, r.trace)
    /\ pre' = new(ParseMemoryLimit)
    /\ UNCHANGED args

SpecParseLex == InitParseLex /\ [][CallParseLex]_vars

\* The pattern functions: generate_pattern and can_generate on a pattern name
\* and a count, is_an_bn_pattern on a string.
MaxN == 3
MaxPatternLen == 7

PatternAlphabet == {"a", "b", " "}

PatternNames == {<<"an_bn">>, <<"an_bn", " ">>, <<"an", "bn">>, <<"a">>, <<>>}

InitPattern ==
    /\ Idle
    /\ \/ args \in PatternNames \X (0..MaxN)
       \/ args \in {<<s>> : s \in SeqsUpTo(PatternAlphabet, MaxPatternLen)}

CallGeneratePattern ==
    /\ call.op = "new"
    /\ Len(args) = 2
    /\ ret' = generate_pattern(args[1], args[2])
    /\ call' = Called("generate_pattern", 0, <<>>)
    /\ UNCHANGED <<items, memory_limit, step_count, args, pre>>

CallCanGenerate ==
    /\ call.op = "new"
    /\ Len(args) = 2
    /\ ret' = Returned(can_generate(args[1], args[2]))
    /\ call' = Called("can_generate", 0, <<>>)
    /\ UNCHANGED <<items, memory_limit, step_count, args, pre>>

CallIsAnBn ==
    /\ call.op = "new"
    /\ Len(args) = 1
    /\ ret' = Returned(is_an_bn_pattern(args[1]))
    /\ call' = Called("is_an_bn_pattern", 0, <<>>)
    /\ UNCHANGED <<items, memory_limit, step_count, args, pre>>

NextPattern == CallGeneratePattern \/ CallCanGenerate \/ CallIsAnBn

SpecPattern == InitPattern /\ [][NextPattern]_vars

\* step on workspaces seeded by add_lex from a lexicon with items that select
\* each other and items that license movement after a merge.
MaxStepItems == 3

StepLexicon ==
    { test_lexicon[1],
      test_lexicon[3],
      LexItem(<<"nn">>, <<Cat("N"), Sel("N")>>),
      LexItem(<<"mm">>, <<Cat("N"), Sel("N")>>),
      LexItem(<<"wh">>, <<Pos(1), Neg(1)>>),
      LexItem(<<"mover">>, <<Cat("N"), Neg(1)>>),
      LexItem(<<"probe">>, <<Sel("N"), Pos(1)>>) }

StepLeaves == {from_lex(item) : item \in StepLexicon}

InitStep ==
    /\ items \in SeqsUpTo(StepLeaves, MaxStepItems)
    /\ memory_limit = ParseMemoryLimit
    /\ step_count = 0
    /\ args = <<>>
    /\ call = Called("new", 0, <<>>)
    /\ pre = new(ParseMemoryLimit)
    /\ ret = NoRet

SpecStep == InitStep /\ [][Step]_vars

\* step, derive and parse_sentence on workspaces whose lexical items all
\* carry a Category feature, as every item of test_lexicon does.
MaxCatItems == 3

CatLexicon ==
    { test_lexicon[1],
      test_lexicon[3],
      LexItem(<<"nn">>, <<Cat("N"), Sel("N")>>),
      LexItem(<<"of">>, <<Sel("N"), Cat("P")>>),
      LexItem(<<"mover">>, <<Cat("N"), Neg(1)>>),
      LexItem(<<"probe">>, <<Cat("V"), Sel("N"), Pos(1)>>) }

CatLeaves == {from_lex(item) : item \in CatLexicon}

InitCat ==
    \/ /\ Idle
       /\ args \in {<<sentence>> : sentence \in SeqsUpTo(ParseAlphabet, MaxSentenceLen)}
    \/ /\ items \in SeqsUpTo(CatLeaves, MaxCatItems)
       /\ memory_limit = ParseMemoryLimit
       /\ step_count = 0
       /\ args = << <<>> >>
       /\ call = Called("new", 0, <<>>)
       /\ pre = new(ParseMemoryLimit)
       /\ ret = NoRet

NextCat == Step \/ Derive \/ CallParse

SpecCat == InitCat /\ [][NextCat]_vars

\* step on workspaces of leaves with licensors, and parse_sentence, which runs
\* derive with its budget of ParseMaxSteps steps, on sentences over the same
\* lexicon.
MaxMeasureItems == 3

MeasureLexicon ==
    << test_lexicon[1],
       test_lexicon[3],
       LexItem(<<"nn">>, <<Cat("N"), Sel("N")>>),
       LexItem(<<"wh">>, <<Pos(1), Neg(1)>>),
       LexItem(<<"ww">>, <<Pos(1), Pos(1), Neg(1)>>),
       LexItem(<<"wv">>, <<Pos(1), Pos(2), Neg(1), Neg(2)>>),
       LexItem(<<"mover">>, <<Cat("N"), Neg(1)>>),
       LexItem(<<"probe">>, <<Sel("N"), Pos(1)>>) >>

MeasureIndices == SeqsUpTo(1..Len(MeasureLexicon), MaxMeasureItems)

InitMeasure ==
    \E idx \in MeasureIndices :
        \/ /\ Idle
           /\ args = <<JoinSpace([i \in 1..Len(idx) |-> MeasureLexicon[idx[i]].phon]), MeasureLexicon>>
        \/ /\ items = [i \in 1..Len(idx) |-> from_lex(MeasureLexicon[idx[i]])]
           /\ idx # <<>>
           /\ memory_limit = ParseMemoryLimit
           /\ step_count = 0
           /\ args = << <<>>, MeasureLexicon >>
           /\ call = Called("new", 0, <<>>)
           /\ pre = new(ParseMemoryLimit)
           /\ ret = NoRet

NextMeasure == Step \/ CallParseLex

SpecMeasure == InitMeasure /\ [][NextMeasure]_vars

(***************************************************************************)
(* Claims                                                                  *)
(***************************************************************************)
AfterStep == call.op = "step"
AfterDerive == call.op = "derive"
AfterMerge == call.op = "merge"
AfterMove == call.op = "move_operation"
AfterParse == call.op = "parse_sentence"

HasKind(fs, kind) == \E i \in 1..Len(fs) : fs[i].t = kind

\* C1: whenever step is called on a non-empty workspace whose memory usage
\* does not exceed memory_limit and find_mergeable_pairs returns at least one
\* pair, step returns Ok and the workspace holds exactly one item fewer than
\* before; in particular one step on ["the", "student"] takes the workspace
\* from size 2 to size 1.
C1_StepMergesFirstPair ==
    ( /\ AfterStep
      /\ pre.items # <<>>
      /\ memory_usage(pre) <= pre.memory_limit
      /\ find_mergeable_pairs(pre.items) # <<>> )
    => /\ ret = OkUnit
       /\ Len(items) = Len(pre.items) - 1

\* C2: parse_sentence("the student left", test_lexicon) returns Ok with an
\* object whose linearization is "the student left", and the derivation ends
\* with the workspace holding exactly one object whose feature sequence is
\* empty.
TheStudentLeft == <<"the", " ", "student", " ", "left">>

C2_ParsesTheStudentLeft ==
    (AfterParse /\ args = <<TheStudentLeft>>)
    => /\ ret.tag = "Ok"
       /\ Len(ret.obj) = 1
       /\ linearize(ret.obj[1]) = TheStudentLeft
       /\ Len(items) = 1
       /\ items[1].features = <<>>

\* C3: when merge(a, b) succeeds the result has a's label, children [a, b]
\* and the features of a with exactly one Selector removed (the matched one)
\* followed by the features of b with exactly one Category removed (the first
\* matching one); every other feature survives in its original order.
FirstMatchingCat(fs, c) ==
    IF \E i \in 1..Len(fs) : fs[i] = Cat(c)
    THEN CHOOSE i \in 1..Len(fs) : fs[i] = Cat(c) /\ \A j \in 1..(i - 1) : fs[j] # Cat(c)
    ELSE 0

C3_MergeRemovesOneSelOneCat ==
    (AfterMerge /\ ret.tag = "Ok")
    => LET a == args[1]
           b == args[2]
           si == FirstOfKind(a.features, "Sel")
           ci == FirstMatchingCat(b.features, a.features[si].c)
       IN  /\ ret.obj[1].label = a.label
           /\ ret.obj[1].children = <<a, b>>
           /\ ret.obj[1].features = RemoveAt(a.features, si) \o RemoveAt(b.features, ci)

\* C4 as stated: merge(a, b) succeeds if and only if a has a Selector feature
\* and, for the first Selector Sel(C) of a, b contains Cat(C) anywhere in its
\* feature sequence; later Selector features of a are never considered.
C4_MergeIffFirstSelCatAnywhere ==
    AfterMerge
    => LET a == args[1]
           b == args[2]
           si == FirstOfKind(a.features, "Sel")
       IN  (ret.tag = "Ok")
           <=> (si # 0 /\ \E j \in 1..Len(b.features) : b.features[j] = Cat(a.features[si].c))

\* C4 amended: merge(a, b) succeeds if and only if a has a Selector feature,
\* b has a Category feature, and the first Selector of a names the category of
\* the first Category feature of b; later Selector features of a and later
\* Category features of b are never considered; every failure is
\* FeatureMismatch.
C4_MergeIffFirstSelFirstCat ==
    AfterMerge
    => LET af == args[1].features
           bf == args[2].features
           firstPair ==
               \E i \in 1..Len(af), j \in 1..Len(bf) :
                   /\ IsSel(af[i]) /\ \A m \in 1..(i - 1) : ~IsSel(af[m])
                   /\ IsCat(bf[j]) /\ \A n \in 1..(j - 1) : ~IsCat(bf[n])
                   /\ af[i].c = bf[j].c
       IN  /\ (ret.tag = "Ok") <=> firstPair
           /\ ret.tag # "Ok" => ret = Err("FeatureMismatch")

\* C4 witness: the first selector of a is Sel(N), b carries Cat(N) behind
\* Cat(D), and merge has failed.
C4_Witness ==
    /\ AfterMerge
    /\ args[1].features = <<Sel("N"), Sel("D")>>
    /\ args[2].features = <<Cat("D"), Cat("N")>>
    /\ ret = Err("FeatureMismatch")

\* C5: for every a that carries no Selector feature and every b, merge(a, b)
\* fails with FeatureMismatch.
C5_NoSelectorFails ==
    (AfterMerge /\ ~HasKind(args[1].features, "Sel"))
    => ret = Err("FeatureMismatch")

\* C5 witness: test_merge_operation's first call, "the" = [Cat(D)] against
\* "student" = [Cat(N)].
C5_Witness ==
    /\ AfterMerge
    /\ args[1].features = <<Cat("D")>>
    /\ args[2].features = <<Cat("N")>>
    /\ ret = Err("FeatureMismatch")

\* C6: if the sum of node counts over all workspace items exceeds
\* memory_limit when step is called on a non-empty workspace, step fails with
\* MemoryLimitExceeded and the items are the same after the call as before.
C6_MemoryGuardBeforeAnyOperation ==
    (AfterStep /\ pre.items # <<>> /\ memory_usage(pre) > pre.memory_limit)
    => /\ ret = Err("MemoryLimitExceeded")
       /\ items = pre.items

\* C6 witness: memory_limit 1, two leaves that could merge, and step has
\* failed with MemoryLimitExceeded.
C6_Witness ==
    /\ AfterStep
    /\ memory_limit = 1
    /\ Len(pre.items) = 2
    /\ find_mergeable_pairs(pre.items) # <<>>
    /\ ret = Err("MemoryLimitExceeded")
    /\ items = pre.items

\* C7: derive returns Ok(obj) only if the workspace then holds exactly one
\* item, that item has no features and obj equals it; every step call but the
\* last has succeeded; if the last step call failed with NoValidOperations
\* derive returns NoValidOperations unless the workspace is successful; any
\* other step failure is returned unchanged.
C7_DeriveOutcome ==
    AfterDerive
    => LET trace == call.trace
           n == Len(trace)
       IN  /\ ret.tag = "Ok"
                => /\ Len(items) = 1
                   /\ items[1].features = <<>>
                   /\ ret.obj = <<items[1]>>
           /\ \A i \in 1..(n - 1) : trace[i].tag = "Ok"
           /\ (n > 0 /\ trace[n] = Err("NoValidOperations"))
                => IF Len(items) = 1 /\ items[1].features = <<>>
                   THEN ret = OkObj(items[1])
                   ELSE ret = Err("NoValidOperations")
           /\ (n > 0 /\ trace[n].tag = "Err" /\ trace[n] # Err("NoValidOperations"))
                => /\ ret = trace[n]
                   /\ ret.err \in {"EmptyWorkspace", "MemoryLimitExceeded", "FeatureMismatch"}

\* C7 witness: derive has returned Ok after at least one step.
C7_Witness ==
    /\ AfterDerive
    /\ ret.tag = "Ok"
    /\ Len(call.trace) >= 1
    /\ Len(pre.items) = 2

\* C8: derive calls step at most max_steps times and step_count grows by at
\* most max_steps; when the budget is used up and the workspace is not
\* successful it returns NoValidOperations; with max_steps = 0 it takes no
\* step and returns Ok exactly when the workspace is already successful.
C8_DeriveStepBudget ==
    AfterDerive
    => LET trace == call.trace
           successful == Len(items) = 1 /\ items[1].features = <<>>
       IN  /\ Len(trace) <= call.max_steps
           /\ step_count - pre.step_count <= call.max_steps
           /\ step_count >= pre.step_count
           /\ ( /\ Len(trace) = call.max_steps
                /\ \A i \in 1..Len(trace) : trace[i].tag = "Ok"
                /\ ~successful )
                => ret = Err("NoValidOperations")
           /\ call.max_steps = 0
                => /\ trace = <<>>
                   /\ items = pre.items
                   /\ step_count = pre.step_count
                   /\ (ret.tag = "Ok") <=> (Len(pre.items) = 1 /\ pre.items[1].features = <<>>)
                   /\ ret.tag # "Ok" => ret = Err("NoValidOperations")

\* C8 witness: derive with max_steps = 1 has made one successful step, the
\* workspace is not successful, a further step would succeed, and derive has
\* returned NoValidOperations.
C8_Witness ==
    /\ AfterDerive
    /\ call.max_steps = 1
    /\ Len(call.trace) = 1
    /\ call.trace[1].tag = "Ok"
    /\ ~is_successful(WS)
    /\ step(WS).ret.tag = "Ok"
    /\ ret = Err("NoValidOperations")

\* C9: once a step call on a workspace has failed, or once the workspace is
\* successful, no later step or derive call on that workspace changes its
\* items, and a step call after a failed step call returns what that one
\* returned.
C9_FailureIsTerminal ==
    [][ ( /\ (AfterStep /\ ret.tag = "Err") \/ is_successful(WS)
          /\ call'.op \in {"step", "derive"} )
        => /\ items' = items
           /\ (AfterStep /\ ret.tag = "Err" /\ call'.op = "step") => ret' = ret ]_vars

\* C10: move_operation(obj) fails with NoValidOperations if obj's features
\* hold no Pos feature, or if no node of obj's tree (obj or a descendant)
\* carries Neg(k) for the index k of the first Pos feature of obj; in every
\* other case it succeeds.
RECURSIVE NodesOf(_)
NodesOf(obj) ==
    {obj} \cup UNION {NodesOf(obj.children[i]) : i \in 1..Len(obj.children)}

C10_MoveFailsIffNoTargetForFirstPos ==
    AfterMove
    => LET obj == args[1]
           noPos == \A i \in 1..Len(obj.features) : obj.features[i].t # "Pos"
           k == obj.features[FirstOfKind(obj.features, "Pos")].k
           noTarget == \A n \in NodesOf(obj) :
                          \A i \in 1..Len(n.features) : n.features[i] # Neg(k)
       IN  IF noPos \/ noTarget
           THEN ret = Err("NoValidOperations")
           ELSE ret.tag = "Ok"

\* C10 witness: the first Pos feature has no target, a later Pos feature has
\* one in the tree, and move_operation has failed.
C10_Witness ==
    /\ AfterMove
    /\ args[1].features = <<Pos(1), Pos(2)>>
    /\ \A n \in NodesOf(args[1]) : ~HasNeg(n, 1)
    /\ \E n \in NodesOf(args[1]) : n # args[1] /\ HasNeg(n, 2)
    /\ ret = Err("NoValidOperations")

\* C11: a successful move_operation(obj) removes exactly one Pos feature from
\* obj's features (the triggering one, index k) and exactly one Neg(k) feature
\* from the extracted target's features; every other feature of the new root
\* and of the extracted target, further Pos(k) and Neg(k) included, survives.
FirstEqual(fs, g) ==
    IF \E i \in 1..Len(fs) : fs[i] = g
    THEN CHOOSE i \in 1..Len(fs) : fs[i] = g /\ \A j \in 1..(i - 1) : fs[j] # g
    ELSE 0

RECURSIVE PreOrder(_)
RECURSIVE PreOrderAll(_)
PreOrderAll(objs) ==
    IF objs = <<>> THEN <<>> ELSE PreOrder(Head(objs)) \o PreOrderAll(Tail(objs))

PreOrder(obj) == <<obj>> \o PreOrderAll(obj.children)

\* The first node of obj's tree, in pre-order, that carries Neg(k).
FirstTarget(obj, k) ==
    LET nodes == PreOrder(obj)
    IN  nodes[CHOOSE i \in 1..Len(nodes) :
                 HasNeg(nodes[i], k) /\ \A j \in 1..(i - 1) : ~HasNeg(nodes[j], k)]

C11_MoveRemovesOnePosOneNeg ==
    (AfterMove /\ ret.tag = "Ok")
    => LET obj == args[1]
           pi == FirstOfKind(obj.features, "Pos")
           k == obj.features[pi].k
           target == FirstTarget(obj, k)
           root == ret.obj[1]
       IN  /\ root.features = RemoveAt(obj.features, pi)
           /\ root.children[1].features
                 = RemoveAt(target.features, FirstEqual(target.features, Neg(k)))

\* C12: a successful move_operation(obj) returns a new root with obj's label,
\* no terminal content and exactly two children [extractedTarget, obj]:
\* extractedTarget is a copy (label, children, terminal content; its features
\* differ by Neg(k) only) of the first node in pre-order that carries Neg(k),
\* and the second child is the original obj unmodified, still containing the
\* target with its Neg(k).
C12_MoveCopiesAndAdjoins ==
    (AfterMove /\ ret.tag = "Ok")
    => LET obj == args[1]
           k == obj.features[FirstOfKind(obj.features, "Pos")].k
           target == FirstTarget(obj, k)
           root == ret.obj[1]
       IN  /\ root.label = obj.label
           /\ root.phon = <<>>
           /\ Len(root.children) = 2
           /\ root.children[2] = obj
           /\ \E i \in 1..Len(PreOrder(root.children[2])) :
                 PreOrder(root.children[2])[i] = target
           /\ root.children[1].label = target.label
           /\ root.children[1].children = target.children
           /\ root.children[1].phon = target.phon
           /\ RetainNot(root.children[1].features, Neg(k)) = RetainNot(target.features, Neg(k))
           /\ Len(root.children[1].features) < Len(target.features)

\* C12 witness: the root and a node below it both carry Neg(k); the root is
\* the target, and it is also the second child.
C12_Witness ==
    /\ AfterMove
    /\ ret.tag = "Ok"
    /\ args[1].features = <<Pos(1), Neg(1)>>
    /\ Len(args[1].children) = 2
    /\ HasNeg(args[1].children[1], 1)
    /\ ret.obj[1].children[1].children = args[1].children
    /\ ret.obj[1].children[2] = args[1]

\* C12 second case reached as well: the target is a node two levels down.
C12_DeepTarget ==
    /\ AfterMove
    /\ ret.tag = "Ok"
    /\ args[1].features = <<Pos(1)>>
    /\ Len(args[1].children) = 2
    /\ ~HasNeg(args[1].children[1], 1)
    /\ Len(args[1].children[1].children) = 2
    /\ ret.obj[1].children[1].phon # <<>>
    /\ ret.obj[1].children[1] # args[1].children[2]

\* C13: can_merge(a, b) is true iff some Selector Sel(C) of a, at any
\* position, has a Category Cat(C) somewhere in b; find_mergeable_pairs
\* returns exactly the ordered index pairs (i, j) with i # j and
\* can_merge(items[i], items[j]), by ascending i and then ascending j, and
\* leaves the workspace as it was.
SelectedCats(obj) == {obj.features[i].c : i \in {n \in 1..Len(obj.features) : obj.features[n].t = "Sel"}}

OwnCats(obj) == {obj.features[i].c : i \in {n \in 1..Len(obj.features) : obj.features[n].t = "Cat"}}

Selects(a, b) == SelectedCats(a) \cap OwnCats(b) # {}

C13_CanMergeAndPairs ==
    /\ call.op = "can_merge" => ret.obj[1] = Selects(args[1], args[2])
    /\ call.op = "find_mergeable_pairs"
         => LET pairs == ret.obj[1]
                n == Len(items)
            IN  /\ {pairs[p] : p \in 1..Len(pairs)}
                      = {<<i, j>> \in (1..n) \X (1..n) : i # j /\ Selects(items[i], items[j])}
                /\ \A p, q \in 1..Len(pairs) :
                      p < q => \/ pairs[p][1] < pairs[q][1]
                               \/ pairs[p][1] = pairs[q][1] /\ pairs[p][2] < pairs[q][2]
                /\ items = pre.items

\* C13 witness: find_mergeable_pairs has returned several pairs, among them
\* one that merge would reject (a later selector matches a later category).
C13_Witness ==
    /\ call.op = "find_mergeable_pairs"
    /\ Len(ret.obj[1]) >= 3
    /\ \E p \in 1..Len(ret.obj[1]) :
          ~MergeMatches(items[ret.obj[1][p][1]], items[ret.obj[1][p][2]])

\* C14: step_count never decreases over step and derive calls; a step call
\* on an empty workspace fails with EmptyWorkspace and leaves step_count as it
\* was; every step call on a non-empty workspace increases step_count by
\* exactly 1, whether it succeeds or fails.
C14_StepCountMonotone ==
    /\ call.op \in {"step", "derive", "add_lex"} => step_count >= pre.step_count
    /\ (AfterStep /\ pre.items = <<>>)
         => ret = Err("EmptyWorkspace") /\ step_count = pre.step_count
    /\ (AfterStep /\ pre.items # <<>>)
         => /\ step_count = pre.step_count + 1
            /\ ret.tag \in {"Ok", "Err"}
            /\ ret.tag = "Err"
                 => ret.err \in {"MemoryLimitExceeded", "FeatureMismatch", "NoValidOperations"}
    /\ AfterDerive => step_count = pre.step_count + Len(call.trace)
                          - (IF pre.items = <<>> THEN Len(call.trace) ELSE 0)

\* C14 witness: a step call that failed with MemoryLimitExceeded has counted.
C14_Witness ==
    /\ AfterStep
    /\ pre.step_count = 1
    /\ ret = Err("MemoryLimitExceeded")
    /\ step_count = 2

\* C15: parse_sentence returns UnknownToken(t) for the first
\* whitespace-separated token t of the sentence that no lexicon item has as
\* its surface form, before the derivation runs (no step is taken); when
\* several lexicon items share a surface form, the first in lexicon order is
\* the one used.
Known(lexicon, token) == \E i \in 1..Len(lexicon) : lexicon[i].phon = token

FirstWithForm(lexicon, token) ==
    lexicon[CHOOSE i \in 1..Len(lexicon) :
               lexicon[i].phon = token /\ \A j \in 1..(i - 1) : lexicon[j].phon # token]

C15_UnknownTokenAndFirstMatch ==
    AfterParse
    => LET tokens == split_whitespace(args[1])
           lexicon == args[2]
           unknown == {i \in 1..Len(tokens) : ~Known(lexicon, tokens[i])}
       IN  IF unknown # {}
           THEN /\ ret = UnknownToken(tokens[CHOOSE i \in unknown : \A j \in unknown : i <= j])
                /\ step_count = 0
                /\ call.trace = <<>>
           ELSE LET seeded == [i \in 1..Len(tokens) |-> from_lex(FirstWithForm(lexicon, tokens[i]))]
                    run == derive(Workspace(seeded, ParseMemoryLimit, 0), ParseMaxSteps)
                IN  /\ ret.err # "UnknownToken"
                    /\ ret = run.ret
                    /\ items = run.ws.items
                    /\ call.trace = run.trace

\* C15 witness: "the student" against the lexicon without "student": the
\* second token is reported and no step was taken.
C15_Witness ==
    /\ AfterParse
    /\ args = << <<"the", " ", "student">>, ShortLexicon >>
    /\ ret = UnknownToken(<<"student">>)
    /\ step_count = 0

\* C15, the other case reached as well: "the" against the lexicon that has it
\* twice leaves the leaf of the first entry in the workspace.
C15_FirstEntryUsed ==
    /\ AfterParse
    /\ args = << <<"the">>, DupLexicon >>
    /\ items = <<from_lex(DupLexicon[1])>>
    /\ from_lex(DupLexicon[1]) # from_lex(DupLexicon[3])

\* C16: for every n >= 0, generate_pattern("an_bn", n) returns Ok with a text
\* of exactly n tokens "a" followed by n tokens "b" separated by single spaces
\* (the empty string for n = 0), is_an_bn_pattern accepts that text, and
\* can_generate("an_bn", n) is true; generate_pattern with any other pattern
\* name fails with InvalidOperation.
AnBnTokens(n) == [i \in 1..(2 * n) |-> IF i <= n THEN <<"a">> ELSE <<"b">>]

AnBnText(n) ==
    [k \in 1..(IF n = 0 THEN 0 ELSE 4 * n - 1) |->
        IF k % 2 = 0 THEN " " ELSE IF k < 2 * n THEN "a" ELSE "b"]

C16_GeneratePattern ==
    /\ call.op = "generate_pattern"
         => IF args[1] = <<"an_bn">>
            THEN /\ ret = Returned(AnBnText(args[2]))
                 /\ split_whitespace(ret.obj[1]) = AnBnTokens(args[2])
                 /\ args[2] = 0 => ret.obj[1] = <<>>
                 /\ is_an_bn_pattern(ret.obj[1])
            ELSE ret = Err("InvalidOperation")
    /\ call.op = "can_generate"
         => (args[1] = <<"an_bn">> => ret = Returned(TRUE))

\* C16 witness: generate_pattern("an_bn", 2) returned "a a b b".
C16_Witness ==
    /\ call.op = "generate_pattern"
    /\ args = << <<"an_bn">>, 2 >>
    /\ ret = Returned(<<"a", " ", "a", " ", "b", " ", "b">>)

\* C16, the failing branch reached as well.
C16_OtherNameFails ==
    /\ call.op = "generate_pattern"
    /\ args[1] = <<"an", "bn">>
    /\ ret = Err("InvalidOperation")

\* C17: is_an_bn_pattern(s) returns true if and only if the
\* whitespace-separated tokens of s are n copies of "a" followed by n copies
\* of "b" for a single shared n >= 0; it rejects every other token sequence,
\* odd lengths and mixed orders included.
C17_IsAnBnExact ==
    call.op = "is_an_bn_pattern"
    => LET tokens == split_whitespace(args[1])
       IN  ret = Returned(\E n \in 0..Len(tokens) : tokens = AnBnTokens(n))

\* C17 witness: "a b b" was rejected.
C17_Witness ==
    /\ call.op = "is_an_bn_pattern"
    /\ args = << <<"a", " ", "b", " ", "b">> >>
    /\ ret = Returned(FALSE)

\* C17, an accepted text with n = 2 reached as well.
C17_AcceptsTwo ==
    /\ call.op = "is_an_bn_pattern"
    /\ args = << <<"a", " ", "a", " ", "b", " ", "b">> >>
    /\ ret = Returned(TRUE)

\* C18: in a merging step for the first mergeable pair (i, j), the item with
\* the larger original index is the left operand (first child and label
\* source) and the item with the smaller index the right operand, whichever of
\* the two is the selector; the merged object is appended at the end of the
\* item list and all other items keep their relative order and content.
KeepExcept(s, drop) ==
    LET kept == {k \in 1..Len(s) : k \notin drop}
    IN  [n \in 1..Cardinality(kept) |->
            s[CHOOSE k \in kept : Cardinality({m \in kept : m < k}) = n - 1]]

MergingStep ==
    /\ AfterStep
    /\ pre.items # <<>>
    /\ ret # Err("MemoryLimitExceeded")
    /\ find_mergeable_pairs(pre.items) # <<>>

C18_LargerIndexIsLeftOperand ==
    MergingStep
    => LET first == find_mergeable_pairs(pre.items)[1]
           hi == IF first[1] > first[2] THEN first[1] ELSE first[2]
           lo == IF first[1] > first[2] THEN first[2] ELSE first[1]
           left == pre.items[hi]
           right == pre.items[lo]
           others == KeepExcept(pre.items, {hi, lo})
       IN  IF ret = OkUnit
           THEN /\ Len(items) = Len(pre.items) - 1
                /\ \A k \in 1..Len(others) : items[k] = others[k]
                /\ items[Len(items)].children = <<left, right>>
                /\ items[Len(items)].label = left.label
                /\ items[Len(items)].phon = <<>>
           ELSE /\ ret = merge(left, right)
                /\ ret.tag = "Err"
                /\ items = others

\* C18 witness: the first pair is (1, 2), the selector found at the smaller
\* index, the two items differ, and the merged object has the item of index 2
\* as its first child; a third item stays in front of it.
C18_Witness ==
    /\ MergingStep
    /\ ret = OkUnit
    /\ Len(pre.items) = 3
    /\ find_mergeable_pairs(pre.items)[1] = <<1, 2>>
    /\ pre.items[1] # pre.items[2]
    /\ items = <<pre.items[3], items[2]>>
    /\ items[2].children = <<pre.items[2], pre.items[1]>>

\* C18, the selector at the larger index reached as well.
C18_SelectorAtLargerIndex ==
    /\ MergingStep
    /\ ret = OkUnit
    /\ find_mergeable_pairs(pre.items)[1] = <<2, 1>>
    /\ items[Len(items)].children = <<pre.items[2], pre.items[1]>>

\* C19: step attempts a move only when find_mergeable_pairs is empty; it then
\* replaces, at the same index, the first item in list order on which
\* move_operation succeeds and leaves every other item and the item count
\* unchanged; if no pair is mergeable and move_operation fails on every item,
\* step fails with NoValidOperations and the items are unchanged.
Movable(its) == {i \in 1..Len(its) : move_operation(its[i]).tag = "Ok"}

OperatingStep ==
    /\ AfterStep
    /\ pre.items # <<>>
    /\ ret # Err("MemoryLimitExceeded")

C19_MoveOnlyWithoutPairs ==
    OperatingStep
    => LET pairs == find_mergeable_pairs(pre.items)
           movable == Movable(pre.items)
       IN  /\ pairs # <<>> => Len(items) < Len(pre.items)
           /\ (pairs = <<>> /\ movable # {})
                => LET f == CHOOSE m \in movable : \A n \in movable : m <= n
                   IN  /\ ret = OkUnit
                       /\ Len(items) = Len(pre.items)
                       /\ items[f] = move_operation(pre.items[f]).obj[1]
                       /\ \A k \in 1..Len(items) : k # f => items[k] = pre.items[k]
           /\ (pairs = <<>> /\ movable = {})
                => ret = Err("NoValidOperations") /\ items = pre.items

\* C19 witness: no pair, items 2 and 3 of three can move, item 2 was replaced
\* and item 3 was not.
C19_Witness ==
    /\ OperatingStep
    /\ find_mergeable_pairs(pre.items) = <<>>
    /\ Movable(pre.items) = {2, 3}
    /\ ret = OkUnit
    /\ items[2] # pre.items[2]
    /\ items[3] = pre.items[3]

\* C19, the other two cases reached as well: a merged item that moves while a
\* pair exists elsewhere is left alone, and a step with nothing to do.
C19_PairBeforeMove ==
    /\ OperatingStep
    /\ find_mergeable_pairs(pre.items) # <<>>
    /\ Movable(pre.items) # {}

C19_NothingApplies ==
    /\ OperatingStep
    /\ find_mergeable_pairs(pre.items) = <<>>
    /\ Movable(pre.items) = {}
    /\ Len(pre.items) >= 2
    /\ ret = Err("NoValidOperations")

\* C20: in every workspace reached from leaves added by add_lex through any
\* sequence of step calls, every node of every item is either a leaf (phon
\* present, zero children) or an internal node (no phon, exactly two
\* children); no node has phon together with children.
IsLeafNode(n) == n.phon # <<>> /\ n.children = <<>>

IsInternalNode(n) == n.phon = <<>> /\ Len(n.children) = 2

C20_LeafOrBinaryNode ==
    \A i \in 1..Len(items) :
        \A n \in NodesOf(items[i]) :
            /\ IsLeafNode(n) \/ IsInternalNode(n)
            /\ ~(n.phon # <<>> /\ n.children # <<>>)

\* C20 witness: after a step, an item whose first child is itself the result
\* of a merge or a move.
C20_Witness ==
    /\ AfterStep
    /\ \E i \in 1..Len(items) :
          /\ Len(items[i].children) = 2
          /\ items[i].children[1].children # <<>>

\* C20, an item built by a move on top of a merge reached as well.
C20_MovedOverMerged ==
    /\ AfterStep
    /\ pre.items # <<>>
    /\ find_mergeable_pairs(pre.items) = <<>>
    /\ ret = OkUnit
    /\ \E i \in 1..Len(items) :
          /\ items[i] # pre.items[i]
          /\ items[i].children[2] = pre.items[i]
          /\ pre.items[i].children # <<>>

\* C21: if every lexical item added to a workspace carries at least one
\* Category feature, then after any sequence of step calls every item of the
\* workspace still has a Category feature among its root features, so the
\* workspace is never successful and derive never returns Ok; parse_sentence
\* over test_lexicon returns an error for every sentence.
C21_CategoryNeverConsumed ==
    /\ \A i \in 1..Len(items) : HasKind(items[i].features, "Cat")
    /\ ~(Len(items) = 1 /\ items[1].features = <<>>)
    /\ AfterDerive => ret.tag = "Err"
    /\ AfterParse => ret.tag = "Err"

\* C21 witness: derive merged two leaves into one item, which kept a
\* Category feature, and returned NoValidOperations.
C21_Witness ==
    /\ AfterDerive
    /\ Len(pre.items) = 2
    /\ Len(call.trace) = 2
    /\ call.trace[1] = OkUnit
    /\ Len(items) = 1
    /\ HasKind(items[1].features, "Cat")
    /\ ret = Err("NoValidOperations")

\* C21, reached as well: a move on a merged item, and parse_sentence on a
\* sentence whose two tokens merge.
C21_AfterMove ==
    /\ AfterStep
    /\ ret = OkUnit
    /\ Len(items) = Len(pre.items)
    /\ items # pre.items

C21_ParseMerges ==
    /\ AfterParse
    /\ Len(call.trace) = 2
    /\ call.trace[1] = OkUnit
    /\ ret = Err("NoValidOperations")

\* C22: every successful step strictly decreases the measure (number of items
\* + number of Pos features in the root feature sequences of the items): a
\* merge lowers the item count by one without adding Pos features, a move
\* removes at least one Pos feature and keeps the item count. Hence from n
\* leaves with P Pos features in total at most (n - 1) + P steps succeed, and
\* stepping reaches a failing step or success before the step budget is used
\* up.
PosTotal(its) ==
    Cardinality(UNION {{<<i, k>> : k \in {k \in 1..Len(its[i].features) : its[i].features[k].t = "Pos"}} :
                          i \in 1..Len(its)})

Measure(its) == Len(its) + PosTotal(its)

OkCount(trace) == Cardinality({i \in 1..Len(trace) : trace[i] = OkUnit})

C22_MeasureDecreases ==
    /\ (AfterStep /\ ret = OkUnit)
         => /\ Measure(items) < Measure(pre.items)
            /\ \/ /\ Len(items) = Len(pre.items) - 1
                  /\ PosTotal(items) <= PosTotal(pre.items)
               \/ /\ Len(items) = Len(pre.items)
                  /\ PosTotal(items) < PosTotal(pre.items)
    /\ (AfterParse /\ ret.err # "UnknownToken" /\ split_whitespace(args[1]) # <<>>)
         => LET tokens == split_whitespace(args[1])
                leaves == [i \in 1..Len(tokens) |-> from_lex(FirstWithForm(args[2], tokens[i]))]
            IN  /\ OkCount(call.trace) <= (Len(leaves) - 1) + PosTotal(leaves)
                /\ Len(call.trace) < ParseMaxSteps
                /\ \/ ret.tag = "Ok"
                   \/ /\ call.trace # <<>>
                      /\ call.trace[Len(call.trace)].tag = "Err"

\* C22 witness: a step moved an item with two Pos features of the same index
\* and the measure fell by two.
C22_Witness ==
    /\ AfterStep
    /\ ret = OkUnit
    /\ Len(items) = Len(pre.items)
    /\ Measure(items) = Measure(pre.items) - 2

\* C22, reached as well: a merge with Pos features on the operands, and a
\* derivation from one leaf with two Pos features in which (n - 1) + P = 2
\* steps succeeded.
C22_MergeKeepsPos ==
    /\ AfterStep
    /\ ret = OkUnit
    /\ Len(items) = Len(pre.items) - 1
    /\ PosTotal(items) = PosTotal(pre.items)
    /\ PosTotal(items) > 0

C22_BoundAttained ==
    /\ AfterParse
    /\ args[1] = <<"wv">>
    /\ OkCount(call.trace) = 2
    /\ Len(call.trace) = 3
    /\ ret = Err("NoValidOperations")

\* C23: for all objects a and b, if merge(a, b) succeeds then can_merge(a, b)
\* is true; the converse does not hold: can_merge may report a pair that
\* merge rejects.
C23_MergeImpliesCanMerge ==
    (AfterMerge /\ ret.tag = "Ok")
    => /\ can_merge(args[1], args[2])
       /\ Selects(args[1], args[2])

\* C23 witness: a merge that succeeded on a pair that can_merge reports, with
\* a second selector on a that plays no part.
C23_Witness ==
    /\ AfterMerge
    /\ ret.tag = "Ok"
    /\ args[1].features = <<Sel("N"), Sel("D")>>
    /\ args[2].features = <<Cat("N")>>
    /\ can_merge(args[1], args[2])

\* C23, the converse refuted: merge rejected a pair that can_merge reports.
C23_ConverseFails ==
    /\ AfterMerge
    /\ ret = Err("FeatureMismatch")
    /\ args[1].features = <<Sel("D"), Sel("N")>>
    /\ args[2].features = <<Cat("N")>>
    /\ can_merge(args[1], args[2])

====
